---- MODULE Spec2Model ----
(***************************************************************************)
(* A state-machine model of discord/voice_client.py (class VoiceClient).   *)
(*                                                                         *)
(* The state is the VoiceClient object's attributes, the objects it owns   *)
(* (audio players, audio receivers, UDP sockets), the voice connection     *)
(* state it delegates to, and the packets handed to the transport.  Each   *)
(* method of VoiceClient is one action; an action computes the effect of   *)
(* the whole method body, statement by statement, up to the statement      *)
(* that raises (if one does).  The outcome of the last call (which method, *)
(* which exception) is kept in the variable last.                          *)
(*                                                                         *)
(* Attributes that VoiceClient.__init__ (lines 223-242) never assigns are  *)
(* absent from the object: reading one raises AttributeError.  They are    *)
(* modelled with the value "UNSET" (or -1 for the integer _connections).   *)
(***************************************************************************)
EXTENDS Integers, Sequences, FiniteSets, TLC

\* ------------------------------------------------------------------ bounds

MaxUpdates == 2      \* voice server updates delivered
MaxPlayers == 2      \* AudioPlayer objects created by play
MaxCalls   == 3      \* calls of send_audio_packet
MaxPlaybackCalls == 2   \* calls of send_audio_packet around a pause or a source swap

\* ------------------------------------------------------- program constants

\* Python integers are unbounded and the counters reach 4294967295, which is
\* more than a TLC integer holds.  A counter value is therefore kept as two
\* 16-bit limbs <<hi, lo>>, standing for hi * 65536 + lo.
LIMB == 65536

SEQ_LIMIT         == <<0, 65535>>       \* 65535: checked_add('sequence', 1, 65535)
U32_LIMIT         == <<65535, 65535>>   \* 4294967295: checked_add(..., 4294967295)
SAMPLES_PER_FRAME == 960                \* opus.Encoder.SAMPLES_PER_FRAME
CLOSE_CODE        == 4000               \* ws.close(4000)
SSRC              == <<0, 12345>>       \* the SSRC the voice gateway assigned
ZERO              == <<0, 0>>

\* w + n for a limb pair w and a natural number n below 65536
WAdd(w, n) == << w[1] + ((w[2] + n) \div LIMB), (w[2] + n) % LIMB >>

\* a > b on limb pairs
WGreater(a, b) == a[1] > b[1] \/ (a[1] = b[1] /\ a[2] > b[2])

LITE   == "xsalsa20_poly1305_lite"
SUFFIX == "xsalsa20_poly1305_suffix"
PLAIN  == "xsalsa20_poly1305"

\* supported_modes (245-249)
SupportedModes == {LITE, SUFFIX, PLAIN}

\* ------------------------------------------------------------------- state

VARIABLES
    sequence,              \* self.sequence
    timestamp,             \* self.timestamp
    lite_nonce,            \* self._lite_nonce
    player,                \* self._player: 0 is None, else an AudioPlayer id
    receiver,              \* self._receiver: 0 is None, else an AudioReceiver id
    socket,                \* self.socket: 0 is MISSING, else a socket id
    server_id,             \* self.server_id: 0 is MISSING
    encoder,               \* self.encoder: 0 is MISSING, else an Encoder id
    handshaking,           \* self._handshaking: "UNSET", "True", "False"
    voice_state_complete,  \* self._voice_state_complete: "UNSET", "clear", "set"
    voice_server_complete, \* self._voice_server_complete: "UNSET", "clear", "set"
    connected,             \* self._connected: "UNSET", "clear", "set"
    connections,           \* self._connections: -1 is UNSET
    conn,                  \* self._connection, the VoiceConnectionState
    ws,                    \* the signaling websocket
    players,               \* AudioPlayer id -> [state: "playing", "paused" or
                           \* "ended"; source: what it reads from]
    receivers,             \* AudioReceiver id -> "running", "stopped"
    sockets,               \* ids of the UDP sockets the client has opened
    state,                 \* self._state, the client's ConnectionState: the
                           \* audio processing pool and the voice-client registry
    waiter,                \* a caller inside wait_for_listen_ready: "idle",
                           \* "standby" (suspended at 730), "clean" (at 731)
    wire,                  \* packets handed to the connection's send_packet
    last,                  \* the last call: [op, err]
    hist                   \* history: events delivered, calls made, and the
                           \* counters as they were before the last call

clientVars == <<sequence, timestamp, lite_nonce, player, receiver, socket,
                server_id, encoder, handshaking, voice_state_complete,
                voice_server_complete, connected, connections>>
envVars    == <<conn, ws, players, receivers, sockets, state, waiter, wire>>
vars       == <<clientVars, envVars, last, hist>>

Ret(op, err) == [op |-> op, err |-> err]

\* --------------------------------------------------------- byte arithmetic

\* struct.pack('>H', w): two bytes, most significant first
PackU16(w) == << w[2] \div 256, w[2] % 256 >>

\* struct.pack('>I', w): four bytes, most significant first
PackU32(w) == << w[1] \div 256, w[1] % 256, w[2] \div 256, w[2] % 256 >>

Zeros(n) == [i \in 1..n |-> 0]

\* ------------------------------------------------- endpoint strings (tokens)

\* A string is a sequence of tokens; None is the one-token sequence <<"None">>
\* and the empty string is << >>.
None == <<"None">>

Endpoints == { None,
               <<"host">>,
               <<"host", ":", "443">>,
               <<"wss", ":", "//", "host", ":", "443">> }

Tokens == {"None", "tok"}

\* position of the last ":" of s, 0 when there is none
LastColon(s) ==
    LET idx == {i \in 1..Len(s) : s[i] = ":"}
    IN  IF idx = {} THEN 0 ELSE CHOOSE i \in idx : \A j \in idx : j <= i

\* endpoint.rpartition(':')[0]: what precedes the last ':'; '' without a ':'
RPartitionHead(s) ==
    IF LastColon(s) = 0 THEN << >> ELSE SubSeq(s, 1, LastColon(s) - 1)

\* s.startswith('wss://')
StartsWithWss(s) == Len(s) >= 3 /\ s[1] = "wss" /\ s[2] = ":" /\ s[3] = "//"

\* s[6:] of a string that starts with 'wss://'
StripWss(s) == SubSeq(s, 4, Len(s))

\* --------------------------------------------- attribute access on the client

\* Assigning self.token or self.endpoint: both are properties that define a
\* getter only (no setter), so the assignment raises AttributeError.
\* the same assignment were the property to define a setter
PropertyAssign_settable(name) == "ok"

PropertyAssign(name) == "AttributeError"

\* ----------------------------------------------- VoiceConnectionState (conn)

\* The host name of an endpoint: transport prefix and port suffix stripped.
ConnHost(e) ==
    LET noPrefix == IF StartsWithWss(e) THEN StripWss(e) ELSE e
    IN  IF LastColon(noPrefix) = 0 THEN noPrefix
        ELSE SubSeq(noPrefix, 1, LastColon(noPrefix) - 1)

\* _connection.voice_state_update(data): stores the session id
ConnVoiceStateUpdate(c, data) == [c EXCEPT !.session_id = data.session_id]

\* _connection.voice_server_update(data): stores the token and the endpoint
ConnVoiceServerUpdate(c, data) ==
    IF data.token = "None" \/ data.endpoint = None
    THEN [c EXCEPT !.token = data.token]
    ELSE [c EXCEPT !.token = data.token, !.endpoint = ConnHost(data.endpoint)]

\* the UDP socket the connection state owns and send_packet writes to
CONN_SOCKET == -1
ConnSocket(c) == CONN_SOCKET

\* _connection.is_connected()
ConnIsConnected(c) == c.connected

NewReceiver == [alive |-> TRUE, state |-> "standby", cleaning |-> FALSE]

\* ---------------------------------------------------------------- handshake

\* on_voice_state_update (305-306): delegates to the connection state only;
\* self._voice_state_complete is not touched.
OnVoiceStateUpdate(data) ==
    /\ conn' = ConnVoiceStateUpdate(conn, data)
    /\ last' = Ret("on_voice_state_update", "none")
    /\ hist' = [hist EXCEPT !.state = TRUE,
                        !.first = IF @ = "none" THEN "state" ELSE @]
    /\ UNCHANGED <<clientVars, ws, players, receivers, sockets, state, waiter, wire>>

\* The client as on_voice_server_update leaves it, and the exception it raised.
ServerUpdateResult(data) ==
    LET same == [err |-> "none", conn |-> ConnVoiceServerUpdate(conn, data),
                 server_id |-> server_id, socket |-> socket,
                 receiver |-> receiver, receivers |-> receivers,
                 sockets |-> sockets, ws |-> ws,
                 voice_server_complete |-> voice_server_complete]
        \* 311: self.token = data['token']
        a1 == PropertyAssign("token")
        s1 == [same EXCEPT !.conn.token = data.token]
        \* 312: self.server_id = int(data['guild_id'])
        s2 == [s1 EXCEPT !.server_id = data.guild_id]
        \* 322: self.endpoint, _, _ = endpoint.rpartition(':')
        a2 == PropertyAssign("endpoint")
        s3 == [s2 EXCEPT !.conn.endpoint = RPartitionHead(data.endpoint)]
        \* 323-325: strip a leading 'wss://'
        s4 == IF StartsWithWss(s3.conn.endpoint)
              THEN [s3 EXCEPT !.conn.endpoint = StripWss(@)] ELSE s3
        \* 330-333: a new socket, a new receiver, started
        s5 == [s4 EXCEPT !.sockets = @ + 1, !.socket = s4.sockets + 1,
                         !.receivers = Append(@, NewReceiver),
                         !.receiver = Len(s4.receivers) + 1]
    IN  IF a1 # "ok" THEN [same EXCEPT !.err = a1]
        ELSE IF data.endpoint = None \/ s2.conn.token = "None" THEN s2  \* 315-320
        ELSE IF a2 # "ok" THEN [s2 EXCEPT !.err = a2]
        ELSE IF handshaking = "UNSET" THEN [s5 EXCEPT !.err = "AttributeError"]
        ELSE IF handshaking = "False"                                  \* 335-338
             THEN IF s5.ws.state = "MISSING"
                  THEN [s5 EXCEPT !.err = "AttributeError"]
                  ELSE [s5 EXCEPT !.ws.state = "closed", !.ws.close_code = CLOSE_CODE]
        ELSE IF voice_server_complete = "UNSET"                         \* 340
             THEN [s5 EXCEPT !.err = "AttributeError"]
        ELSE [s5 EXCEPT !.voice_server_complete = "set"]

OnVoiceServerUpdate(data) ==
    LET r == ServerUpdateResult(data) IN
    /\ hist.n < MaxUpdates
    /\ conn' = r.conn
    /\ server_id' = r.server_id
    /\ socket' = r.socket
    /\ receiver' = r.receiver
    /\ receivers' = r.receivers
    /\ sockets' = r.sockets
    /\ ws' = r.ws
    /\ voice_server_complete' = r.voice_server_complete
    /\ last' = [op |-> "on_voice_server_update", err |-> r.err]
    /\ hist' = [hist EXCEPT !.n = @ + 1,
                        !.server = @ \/ (data.token # "None" /\ data.endpoint # None),
                        !.full = data.token # "None" /\ data.endpoint # None,
                        !.fulls = IF data.token # "None" /\ data.endpoint # None
                                  THEN @ + 1 ELSE @,
                        !.first = IF @ = "none" /\ data.token # "None"
                                     /\ data.endpoint # None
                                  THEN "server" ELSE @]
    /\ UNCHANGED <<sequence, timestamp, lite_nonce, player, encoder, handshaking,
                   voice_state_complete, connected, connections, players, wire,
                   state, waiter>>

\* prepare_handshake (349-354)
PrepareResult ==
    LET same == [err |-> "none", vsc |-> voice_state_complete,
                 vvc |-> voice_server_complete, handshaking |-> handshaking,
                 connections |-> connections]
    IN  IF voice_state_complete = "UNSET" THEN [same EXCEPT !.err = "AttributeError"]
        ELSE IF voice_server_complete = "UNSET"
             THEN [same EXCEPT !.err = "AttributeError", !.vsc = "clear"]
        ELSE IF connections = -1
             THEN [same EXCEPT !.err = "AttributeError", !.vsc = "clear",
                               !.vvc = "clear", !.handshaking = "True"]
        ELSE [same EXCEPT !.vsc = "clear", !.vvc = "clear",
                          !.handshaking = "True", !.connections = @ + 1]

PrepareHandshake ==
    LET r == PrepareResult IN
    /\ voice_state_complete' = r.vsc
    /\ voice_server_complete' = r.vvc
    /\ handshaking' = r.handshaking
    /\ connections' = r.connections
    /\ last' = Ret("prepare_handshake", r.err)
    /\ hist' = [hist EXCEPT !.prepared = TRUE, !.state = FALSE, !.server = FALSE,
                        !.first = "none"]
    /\ UNCHANGED <<sequence, timestamp, lite_nonce, player, receiver, socket,
                   server_id, encoder, connected, envVars>>

\* finish_handshake (356-360)
FinishResult ==
    LET same == [err |-> "none", vsc |-> voice_state_complete,
                 vvc |-> voice_server_complete, handshaking |-> "False"]
    IN  IF voice_server_complete = "UNSET" THEN [same EXCEPT !.err = "AttributeError"]
        ELSE IF voice_state_complete = "UNSET"
             THEN [same EXCEPT !.err = "AttributeError", !.vvc = "clear"]
        ELSE [same EXCEPT !.vvc = "clear", !.vsc = "clear"]

FinishHandshake ==
    LET r == FinishResult IN
    /\ voice_state_complete' = r.vsc
    /\ voice_server_complete' = r.vvc
    /\ handshaking' = r.handshaking
    /\ last' = Ret("finish_handshake", r.err)
    /\ UNCHANGED <<sequence, timestamp, lite_nonce, player, receiver, socket,
                   server_id, encoder, connected, connections, envVars, hist>>

\* connect_websocket (362-368).  from_client makes a new websocket whose
\* secret_key is None; the loop polls it until the key is reported.
ConnectWebsocketResult(reported) ==
    LET same == [err |-> "none", connected |-> connected, fresh_key |-> FALSE]
    IN  IF connected = "UNSET" THEN [same EXCEPT !.err = "AttributeError"]     \* 364
        ELSE IF ~reported THEN [same EXCEPT !.err = "polling", !.connected = "clear"]
        ELSE [same EXCEPT !.connected = "set", !.fresh_key = TRUE]             \* 367

ConnectWebsocket ==
    \E reported \in BOOLEAN :
        LET r == ConnectWebsocketResult(reported) IN
        /\ connected' = r.connected
        /\ ws' = [ws EXCEPT !.fresh_key = r.fresh_key]
        /\ last' = Ret("connect_websocket", r.err)
        /\ UNCHANGED <<sequence, timestamp, lite_nonce, player, receiver, socket,
                       server_id, encoder, handshaking, voice_state_complete,
                       voice_server_complete, connections, conn, players,
                       receivers, sockets, state, waiter, wire, hist>>

\* ------------------------------------------------------------------ players

Sources  == {"opus", "pcm", "not_a_source"}
Bitrates == {128, 1024}

\* AudioPlayer.is_playing(): resumed and not ended
PlayerIsPlaying(st) == st = "playing"
\* AudioPlayer.is_paused(): not ended and not resumed
PlayerIsPaused(st) == st = "paused"
\* the player's thread has been started and has not terminated
PlayerAlive(st) == st \in {"playing", "paused"}

\* is_connected (432-434)
IsConnected == ConnIsConnected(conn)
\* is_playing (567-569)
IsPlaying == player # 0 /\ PlayerIsPlaying(players[player].state)
\* is_paused (571-573)
IsPaused == player # 0 /\ PlayerIsPaused(players[player].state)

\* opus.Encoder(bitrate=...): the bitrate can be between 16 and 512
EncoderConfigValid(bitrate) == 16 <= bitrate /\ bitrate <= 512

\* play that tests the source before the connection
PlayResult_source_first(source, bitrate) ==
    LET same == [err |-> "none", encoder |-> encoder, player |-> player,
                 players |-> players]
        e1 == IF source # "opus" THEN [same EXCEPT !.encoder = @ + 1] ELSE same
    IN  IF source = "not_a_source" THEN [same EXCEPT !.err = "TypeError"]
        ELSE IF ~IsConnected THEN [same EXCEPT !.err = "ClientException: not connected"]
        ELSE IF IsPlaying THEN [same EXCEPT !.err = "ClientException: already playing"]
        ELSE IF source # "opus" /\ ~EncoderConfigValid(bitrate)
             THEN [same EXCEPT !.err = "ValueError"]
        ELSE [e1 EXCEPT !.players = Append(@, [state |-> "playing", source |-> source]),
                        !.player = Len(players) + 1]

\* play that drops the old encoder before the new one is configured
PlayResult_encoder_dropped(source, bitrate) ==
    LET same == [err |-> "none", encoder |-> encoder, player |-> player,
                 players |-> players]
        e1 == IF source # "opus" THEN [same EXCEPT !.encoder = @ + 1] ELSE same
    IN  IF ~IsConnected THEN [same EXCEPT !.err = "ClientException: not connected"]
        ELSE IF IsPlaying THEN [same EXCEPT !.err = "ClientException: already playing"]
        ELSE IF source = "not_a_source" THEN [same EXCEPT !.err = "TypeError"]
        ELSE IF source # "opus" /\ ~EncoderConfigValid(bitrate)
             THEN [same EXCEPT !.err = "ValueError", !.encoder = 0]
        ELSE [e1 EXCEPT !.players = Append(@, [state |-> "playing", source |-> source]),
                        !.player = Len(players) + 1]

\* play (545-565)
PlayResult(source, bitrate) ==
    LET same == [err |-> "none", encoder |-> encoder, player |-> player,
                 players |-> players]
        e1 == IF source # "opus" THEN [same EXCEPT !.encoder = @ + 1] ELSE same
    IN  IF ~IsConnected THEN [same EXCEPT !.err = "ClientException: not connected"]
        ELSE IF IsPlaying THEN [same EXCEPT !.err = "ClientException: already playing"]
        ELSE IF source = "not_a_source" THEN [same EXCEPT !.err = "TypeError"]
        ELSE IF source # "opus" /\ ~EncoderConfigValid(bitrate)
             THEN [same EXCEPT !.err = "ValueError"]
        ELSE [e1 EXCEPT !.players = Append(@, [state |-> "playing", source |-> source]),                \* 564-565
                        !.player = Len(players) + 1]

Play ==
    \E source \in Sources, bitrate \in Bitrates :
        LET r == PlayResult(source, bitrate) IN
        /\ Len(players) < MaxPlayers
        /\ encoder' = r.encoder
        /\ player' = r.player
        /\ players' = r.players
        /\ last' = Ret("play", r.err)
        /\ UNCHANGED <<sequence, timestamp, lite_nonce, receiver, socket, server_id,
                       handshaking, voice_state_complete, voice_server_complete,
                       connected, connections, conn, ws, receivers, sockets, state, waiter,
                       wire, hist>>

\* AudioPlayer.stop(), .pause(), .resume() on a player in state st
PlayerStop(st)   == "ended"
PlayerPause(st)  == IF st = "playing" THEN "paused" ELSE st
PlayerResume(st) == IF st = "paused" THEN "playing" ELSE st

playerFrame == <<sequence, timestamp, lite_nonce, receiver, socket, server_id,
                 encoder, handshaking, voice_state_complete,
                 voice_server_complete, connected, connections, conn, ws,
                 receivers, sockets, state, waiter, wire, hist>>

\* stop (575-579)
Stop ==
    /\ IF player # 0
       THEN /\ players' = [players EXCEPT ![player].state = PlayerStop(@)]
            /\ player' = 0
       ELSE UNCHANGED <<players, player>>
    /\ last' = Ret("stop", "none")
    /\ UNCHANGED playerFrame

\* pause (581-584)
Pause ==
    /\ IF player # 0
       THEN players' = [players EXCEPT ![player].state = PlayerPause(@)]
       ELSE UNCHANGED players
    /\ last' = Ret("pause", "none")
    /\ UNCHANGED <<player, playerFrame>>

\* resume (586-589)
Resume ==
    /\ IF player # 0
       THEN players' = [players EXCEPT ![player].state = PlayerResume(@)]
       ELSE UNCHANGED players
    /\ last' = Ret("resume", "none")
    /\ UNCHANGED <<player, playerFrame>>

\* The source of a playing player is exhausted: its loop ends.  The client
\* keeps its reference to the player.
SourceExhausted ==
    \E p \in 1..Len(players) :
        /\ players[p].state = "playing"
        /\ players' = [players EXCEPT ![p].state = "ended"]
        /\ last' = Ret("source_exhausted", "none")
        /\ UNCHANGED <<player, playerFrame>>

\* a source setter that ends the running player's loop to swap the source
SetSourceResult_restart(value) ==
    LET same == [err |-> "none", players |-> players]
    IN  IF value = "not_a_source" THEN [same EXCEPT !.err = "TypeError"]
        ELSE IF player = 0 THEN [same EXCEPT !.err = "ValueError"]
        ELSE [same EXCEPT !.players[player].source = value,
                          !.players[player].state = "ended"]

\* source setter (741-749)
SetSourceResult(value) ==
    LET same == [err |-> "none", players |-> players]
    IN  IF value = "not_a_source" THEN [same EXCEPT !.err = "TypeError"]       \* 743
        ELSE IF player = 0 THEN [same EXCEPT !.err = "ValueError"]           \* 746
        ELSE [same EXCEPT !.players[player].source = value]                  \* 749

SetSource ==
    \E value \in Sources :
        LET r == SetSourceResult(value) IN
        /\ players' = r.players
        /\ last' = Ret("source.setter", r.err)
        /\ UNCHANGED <<player, playerFrame>>

\* ---------------------------------------------------------------- listening

Sinks == {"sink", "not_a_sink"}

\* AudioReceiver.start_listening, .stop_listening, .pause, .resume and .stop
\* on a receiver rc.  Stopping a session leaves the receiver on standby with
\* its cleanup still running.
ReceiverStartListening(rc) == [rc EXCEPT !.state = "listening"]
ReceiverStopListening(rc) ==
    IF rc.state = "standby" THEN rc
    ELSE [rc EXCEPT !.state = "standby", !.cleaning = TRUE]
ReceiverPause(rc) == IF rc.state = "listening" THEN [rc EXCEPT !.state = "paused"] ELSE rc
ReceiverResume(rc) == IF rc.state = "paused" THEN [rc EXCEPT !.state = "listening"] ELSE rc
ReceiverStop(rc) == [rc EXCEPT !.alive = FALSE, !.state = "standby"]

\* is_audio_process_pool_initialized (689-691)
IsAudioProcessPoolInitialized == state.pool
\* is_listening (693-695)
IsListening == receiver # 0 /\ receivers[receiver].state = "listening"
\* is_listening_paused (697-699)
IsListeningPaused == receiver # 0 /\ receivers[receiver].state = "paused"
\* is_listen_receiving (701-703)
IsListenReceiving == receiver # 0 /\ receivers[receiver].state # "standby"
\* is_listen_cleaning (705-707)
IsListenCleaning == receiver # 0 /\ receivers[receiver].cleaning

\* listen (641-664).  opusLoaded: the Opus library is loaded.
ListenResult(sink, decode, opusLoaded) ==
    LET same == [err |-> "none", receivers |-> receivers]
    IN  IF ~IsConnected THEN [same EXCEPT !.err = "ClientException: not connected"]
        ELSE IF IsListenReceiving
             THEN [same EXCEPT !.err = "ClientException: already listening"]
        ELSE IF sink = "not_a_sink" THEN [same EXCEPT !.err = "TypeError"]    \* 647
        ELSE IF ~IsAudioProcessPoolInitialized                               \* 650
             THEN [same EXCEPT !.err = "ClientException: pool not initialized"]
        ELSE IF decode /\ ~opusLoaded THEN [same EXCEPT !.err = "OpusNotLoaded"]
        ELSE IF receiver = 0 THEN [same EXCEPT !.err = "AttributeError"]      \* 664
        ELSE [same EXCEPT !.receivers[receiver] = ReceiverStartListening(@)]

listenFrame == <<sequence, timestamp, lite_nonce, player, receiver, socket,
                 server_id, encoder, handshaking, voice_state_complete,
                 voice_server_complete, connected, connections, conn, ws,
                 players, sockets, wire>>

Listen ==
    \E sink \in Sinks, decode \in BOOLEAN, opusLoaded \in BOOLEAN :
        LET r == ListenResult(sink, decode, opusLoaded) IN
        /\ receivers' = r.receivers
        /\ last' = Ret("listen", r.err)
        /\ hist' = [hist EXCEPT !.listen = [sink |-> sink, decode |-> decode,
                                            opus |-> opusLoaded,
                                            connected |-> IsConnected,
                                            standby |-> ~IsListenReceiving,
                                            pool |-> IsAudioProcessPoolInitialized]]
        /\ UNCHANGED <<listenFrame, state, waiter>>

\* init_audio_processing_pool (666-687): the pool is created once; a
\* non-positive size is refused.  Which refusal comes first is not fixed here.
InitAudioProcessingPool ==
    \E max_processes \in {0, 2} :
        LET errors == (IF state.pool THEN {"RuntimeError"} ELSE {})
                      \cup (IF max_processes <= 0 THEN {"ValueError"} ELSE {})
        IN  /\ IF errors = {}
               THEN /\ state' = [state EXCEPT !.pool = TRUE]
                    /\ last' = Ret("init_audio_processing_pool", "none")
               ELSE /\ UNCHANGED state
                    /\ \E e \in errors : last' = Ret("init_audio_processing_pool", e)
            /\ UNCHANGED <<listenFrame, receivers, waiter, hist>>

\* stop_listening (709-712)
StopListening ==
    /\ IF receiver # 0
       THEN receivers' = [receivers EXCEPT ![receiver] = ReceiverStopListening(@)]
       ELSE UNCHANGED receivers
    /\ last' = Ret("stop_listening", "none")
    /\ UNCHANGED <<listenFrame, state, waiter, hist>>

\* pause_listening (714-717)
PauseListening ==
    /\ IF receiver # 0
       THEN receivers' = [receivers EXCEPT ![receiver] = ReceiverPause(@)]
       ELSE UNCHANGED receivers
    /\ last' = Ret("pause_listening", "none")
    /\ UNCHANGED <<listenFrame, state, waiter, hist>>

\* resume_listening (719-722)
ResumeListening ==
    /\ IF receiver # 0
       THEN receivers' = [receivers EXCEPT ![receiver] = ReceiverResume(@)]
       ELSE UNCHANGED receivers
    /\ last' = Ret("resume_listening", "none")
    /\ UNCHANGED <<listenFrame, state, waiter, hist>>

\* wait_for_listen_ready (724-731), one step of the coroutine: the call (which
\* returns at once without a receiver), the wait for standby once the
\* receiver is on standby, the wait for clean once its cleanup is over.
WaitForListenReady ==
    /\ IF waiter = "idle"
       THEN IF receiver = 0                                              \* 728-729
            THEN /\ waiter' = "idle"
                 /\ last' = Ret("wait_for_listen_ready", "none")
            ELSE /\ waiter' = "standby"
                 /\ last' = Ret("wait_for_listen_ready", "suspended")
       ELSE IF waiter = "standby"                                        \* 730
            THEN /\ ~IsListenReceiving
                 /\ waiter' = "clean"
                 /\ last' = Ret("wait_for_listen_ready", "suspended")
            ELSE /\ ~IsListenCleaning                                    \* 731
                 /\ waiter' = "idle"
                 /\ last' = Ret("wait_for_listen_ready", "none")
    /\ UNCHANGED <<listenFrame, receivers, state, hist>>

\* -------------------------------------------------------------- disconnect

\* VoiceConnectionState.disconnect: the session is torn down
ConnDisconnect(c) == [c EXCEPT !.connected = FALSE, !.mode = "MISSING"]

\* disconnect (400-409)
DisconnectResult(force) ==
    LET same == [err |-> "none", player |-> player, players |-> players,
                 conn |-> conn, state |-> state, receivers |-> receivers,
                 connected |-> connected]
        s1 == IF player # 0                                              \* 405
              THEN [same EXCEPT !.players[player].state = PlayerStop(@),
                                !.player = 0]
              ELSE same
        s2 == [s1 EXCEPT !.conn = ConnDisconnect(@)]                     \* 406
        s3 == [s2 EXCEPT !.state.registered = FALSE]                     \* 407
        s4 == IF receiver = 0 THEN s3
              ELSE [s3 EXCEPT !.receivers[receiver] = ReceiverStop(@)]
    IN  IF receiver = 0 THEN [s3 EXCEPT !.err = "AttributeError"]         \* 408
        ELSE IF connected = "UNSET" THEN [s4 EXCEPT !.err = "AttributeError"]
        ELSE [s4 EXCEPT !.connected = "clear"]                           \* 409

Disconnect ==
    \E force \in BOOLEAN :
        LET r == DisconnectResult(force) IN
        /\ player' = r.player
        /\ players' = r.players
        /\ conn' = r.conn
        /\ state' = r.state
        /\ receivers' = r.receivers
        /\ connected' = r.connected
        /\ last' = Ret("disconnect", r.err)
        /\ hist' = [hist EXCEPT !.force = force,
                                !.disconnects = IF @ < 2 THEN @ + 1 ELSE @]
        /\ UNCHANGED <<sequence, timestamp, lite_nonce, receiver, socket,
                       server_id, encoder, handshaking, voice_state_complete,
                       voice_server_complete, connections, ws, sockets, wire,
                       waiter>>

\* ------------------------------------------------------------ audio packets

\* checked_add that resets one step early (>= for >)
CheckedAdd_offbyone(val, value, limit) ==
    IF WGreater(WAdd(val, value), limit) \/ WAdd(val, value) = limit
    THEN ZERO ELSE WAdd(val, value)

\* checked_add that wraps modulo limit + 1 (both limits end in a full low limb)
CheckedAdd_modular(val, value, limit) ==
    IF WGreater(WAdd(val, value), limit)
    THEN << WAdd(val, value)[1] - limit[1] - 1, WAdd(val, value)[2] >>
    ELSE WAdd(val, value)

\* checked_add (293-298): the new value of a counter that holds val
CheckedAdd(val, value, limit) ==
    IF WGreater(WAdd(val, value), limit) THEN ZERO ELSE WAdd(val, value)

SECRET_KEY == "key"
Payloads   == { <<222, 173>> }

\* nacl.utils.random(24): some 24 bytes
RandomNonces == { [i \in 1..24 |-> 7], [i \in 1..24 |-> 10 * i] }

\* opus encoding of a PCM frame
OpusEncode(data) == <<"opus">> \o data

\* SecretBox(key).encrypt(data, nonce).ciphertext: one opaque blob that only
\* the same key and nonce open
Box(key, nonce, data) == << [key |-> key, nonce |-> nonce, data |-> data] >>

\* SecretBox(key).decrypt(ciphertext, nonce): the plaintext, given the blob
\* and the key and nonce it was made with; nothing (CryptoError) otherwise
Unbox(key, nonce, c) ==
    IF Len(c) = 1 /\ c[1].key = key /\ c[1].nonce = nonce
    THEN c[1].data
    ELSE << >>

\* the receiving side, per mode: the bytes after the ciphertext
TrailerLen(mode) == IF mode = PLAIN THEN 0 ELSE IF mode = SUFFIX THEN 24 ELSE 4

\* the nonce the receiver rebuilds from a packet
ReconstructNonce(mode, p) ==
    IF mode = PLAIN THEN SubSeq(p, 1, 12) \o Zeros(12)
    ELSE IF mode = SUFFIX THEN SubSeq(p, Len(p) - 23, Len(p))
    ELSE SubSeq(p, Len(p) - 3, Len(p)) \o Zeros(20)

\* the bytes between the header and the trailer
Ciphertext(mode, p) == SubSeq(p, 13, Len(p) - TrailerLen(mode))

Decrypt(mode, key, p) == Unbox(key, ReconstructNonce(mode, p), Ciphertext(mode, p))

\* the header with its multi-byte fields least significant byte first
Header_little_endian(seq, ts, ssrc) ==
    <<128, 120>> \o << seq[2] % 256, seq[2] \div 256 >>
                \o << ts[2] % 256, ts[2] \div 256, ts[1] % 256, ts[1] \div 256 >>
                \o << ssrc[2] % 256, ssrc[2] \div 256, ssrc[1] % 256, ssrc[1] \div 256 >>

\* _get_voice_packet (439-446): the 12-byte RTP header
Header(seq, ts, ssrc) == <<128, 120>> \o PackU16(seq) \o PackU32(ts) \o PackU32(ssrc)

\* plain encryption with the header at the end of the nonce
EncryptPlain_nonce_tail(header, data) ==
    LET nonce == Zeros(12) \o header
    IN  [packet |-> header \o Box(SECRET_KEY, nonce, data), lite_nonce |-> lite_nonce]

\* _encrypt_xsalsa20_poly1305 (451-456)
EncryptPlain(header, data) ==
    LET nonce == header \o Zeros(12)
    IN  [packet |-> header \o Box(SECRET_KEY, nonce, data), lite_nonce |-> lite_nonce]

\* _encrypt_xsalsa20_poly1305_suffix (458-462)
EncryptSuffix(header, data, random) ==
    [packet |-> header \o Box(SECRET_KEY, random, data) \o random,
     lite_nonce |-> lite_nonce]

\* lite encryption that appends the counter after advancing it
EncryptLite_appends_next(header, data) ==
    LET nonce == PackU32(lite_nonce) \o Zeros(20)
        next  == CheckedAdd(lite_nonce, 1, U32_LIMIT)
    IN  [packet |-> header \o Box(SECRET_KEY, nonce, data) \o PackU32(next),
         lite_nonce |-> next]

\* _encrypt_xsalsa20_poly1305_lite (464-471)
EncryptLite(header, data) ==
    LET nonce == PackU32(lite_nonce) \o Zeros(20)
    IN  [packet |-> header \o Box(SECRET_KEY, nonce, data) \o SubSeq(nonce, 1, 4),
         lite_nonce |-> CheckedAdd(lite_nonce, 1, U32_LIMIT)]

\* _get_voice_packet (438-449) in the negotiated mode
GetVoicePacket(seq, data, random) ==
    LET header == Header(seq, timestamp, SSRC)
    IN  IF conn.mode = PLAIN THEN EncryptPlain(header, data)
        ELSE IF conn.mode = SUFFIX
             THEN EncryptSuffix(header, data, random)
        ELSE EncryptLite(header, data)

\* send_audio_packet with the timestamp advanced inside the try block, so
\* that a packet the transport refuses leaves the timestamp where it was
SendResult_drop_keeps_timestamp(data, encode, encOk, sendOk, random) ==
    LET seq1 == CheckedAdd(sequence, 1, SEQ_LIMIT)
        same == [err |-> "none", sequence |-> seq1, timestamp |-> timestamp,
                 lite_nonce |-> lite_nonce, wire |-> wire, dropped |-> FALSE]
        encoded == IF encode THEN OpusEncode(data) ELSE data
        p == GetVoicePacket(seq1, encoded, random)
        ts1 == CheckedAdd(timestamp, SAMPLES_PER_FRAME, U32_LIMIT)
    IN  IF encode /\ encoder = 0 THEN [same EXCEPT !.err = "AttributeError"]
        ELSE IF encode /\ ~encOk THEN [same EXCEPT !.err = "OpusError"]
        ELSE IF conn.mode = "MISSING" THEN [same EXCEPT !.err = "struct.error"]
        ELSE IF ~sendOk
             THEN [same EXCEPT !.lite_nonce = p.lite_nonce, !.dropped = TRUE]
        ELSE [same EXCEPT !.lite_nonce = p.lite_nonce, !.timestamp = ts1,
                          !.wire = Append(@, p.packet)]

\* send_audio_packet with the sequence advanced after the encoding, so that
\* a frame the encoder rejects leaves the sequence where it was
SendResult_encode_first(data, encode, encOk, sendOk, random) ==
    LET seq1 == CheckedAdd(sequence, 1, SEQ_LIMIT)
        same == [err |-> "none", sequence |-> seq1, timestamp |-> timestamp,
                 lite_nonce |-> lite_nonce, wire |-> wire, dropped |-> FALSE]
        encoded == IF encode THEN OpusEncode(data) ELSE data
        p == GetVoicePacket(seq1, encoded, random)
        ts1 == CheckedAdd(timestamp, SAMPLES_PER_FRAME, U32_LIMIT)
    IN  IF encode /\ encoder = 0
        THEN [same EXCEPT !.err = "AttributeError", !.sequence = sequence]
        ELSE IF encode /\ ~encOk
             THEN [same EXCEPT !.err = "OpusError", !.sequence = sequence]
        ELSE IF conn.mode = "MISSING" THEN [same EXCEPT !.err = "struct.error"]
        ELSE IF ~sendOk
             THEN [same EXCEPT !.lite_nonce = p.lite_nonce, !.timestamp = ts1,
                               !.dropped = TRUE]
        ELSE [same EXCEPT !.lite_nonce = p.lite_nonce, !.timestamp = ts1,
                          !.wire = Append(@, p.packet)]

\* send_audio_packet with the sequence advanced after the packet is built,
\* so that the header carries the sequence from before the call
SendResult_sequence_last(data, encode, encOk, sendOk, random) ==
    LET seq1 == CheckedAdd(sequence, 1, SEQ_LIMIT)
        same == [err |-> "none", sequence |-> seq1, timestamp |-> timestamp,
                 lite_nonce |-> lite_nonce, wire |-> wire, dropped |-> FALSE]
        encoded == IF encode THEN OpusEncode(data) ELSE data
        p == GetVoicePacket(sequence, encoded, random)
        ts1 == CheckedAdd(timestamp, SAMPLES_PER_FRAME, U32_LIMIT)
    IN  IF encode /\ encoder = 0 THEN [same EXCEPT !.err = "AttributeError"]
        ELSE IF encode /\ ~encOk THEN [same EXCEPT !.err = "OpusError"]
        ELSE IF conn.mode = "MISSING" THEN [same EXCEPT !.err = "struct.error"]
        ELSE IF ~sendOk
             THEN [same EXCEPT !.lite_nonce = p.lite_nonce, !.timestamp = ts1,
                               !.dropped = TRUE]
        ELSE [same EXCEPT !.lite_nonce = p.lite_nonce, !.timestamp = ts1,
                          !.wire = Append(@, p.packet)]

\* send_audio_packet (771-782).  encOk: the encoder encodes the frame;
\* sendOk: the transport takes the packet (else send_packet raises OSError).
SendResult(data, encode, encOk, sendOk, random) ==
    LET seq1 == CheckedAdd(sequence, 1, SEQ_LIMIT)                       \* 771
        same == [err |-> "none", sequence |-> seq1, timestamp |-> timestamp,
                 lite_nonce |-> lite_nonce, wire |-> wire, dropped |-> FALSE]
        encoded == IF encode THEN OpusEncode(data) ELSE data
        p == GetVoicePacket(seq1, encoded, random)                       \* 776
        ts1 == CheckedAdd(timestamp, SAMPLES_PER_FRAME, U32_LIMIT)       \* 782
    IN  IF encode /\ encoder = 0 THEN [same EXCEPT !.err = "AttributeError"]
        ELSE IF encode /\ ~encOk THEN [same EXCEPT !.err = "OpusError"]  \* 773
        ELSE IF conn.mode = "MISSING" THEN [same EXCEPT !.err = "struct.error"]
        ELSE IF ~sendOk                                                  \* 779-780
             THEN [same EXCEPT !.lite_nonce = p.lite_nonce, !.timestamp = ts1,
                               !.dropped = TRUE]
        ELSE [same EXCEPT !.lite_nonce = p.lite_nonce, !.timestamp = ts1,
                          !.wire = Append(@, p.packet)]

SendAudioPacket ==
    \E data \in Payloads, encode \in BOOLEAN, encOk \in BOOLEAN,
       sendOk \in BOOLEAN, random \in RandomNonces :
        LET r == SendResult(data, encode, encOk, sendOk, random) IN
        /\ hist.calls < MaxCalls
        /\ sequence' = r.sequence
        /\ timestamp' = r.timestamp
        /\ lite_nonce' = r.lite_nonce
        /\ wire' = r.wire
        /\ last' = Ret("send_audio_packet", r.err)
        /\ hist' = [hist EXCEPT !.calls = @ + 1,
                                !.since = IF r.wire # wire THEN 0 ELSE @ + 1,
                                !.gap = IF r.wire # wire THEN hist.since ELSE @,
                                !.dropped = r.dropped,
                                !.raised = @ \/ r.err # "none",
                                !.wrote = IF r.wire # wire THEN ConnSocket(conn) ELSE @,
                                !.data = IF r.wire # wire
                                         THEN (IF encode THEN OpusEncode(data) ELSE data)
                                         ELSE @,
                                !.pre = [sequence |-> sequence,
                                         timestamp |-> timestamp,
                                         lite_nonce |-> lite_nonce]]
        /\ UNCHANGED <<player, receiver, socket, server_id, encoder, handshaking,
                       voice_state_complete, voice_server_complete, connected,
                       connections, conn, ws, players, receivers, sockets, state, waiter>>

\* recv_audio (801-811).  pollErr: select reports an error condition on the
\* socket; ready: select reports it readable; recvOk: recv returns a datagram
\* (else it raises OSError).
RecvResult(pollErr, ready, recvOk, dump) ==
    LET same == [err |-> "none", returned |-> "None", polled |-> 0, read |-> FALSE]
    IN  IF socket = 0 THEN [same EXCEPT !.err = "TypeError"]              \* 801
        ELSE IF pollErr THEN [same EXCEPT !.polled = socket]             \* 802-804
        ELSE IF ~ready THEN [same EXCEPT !.polled = socket]              \* 805
        ELSE IF connected = "UNSET"
             THEN [same EXCEPT !.polled = socket, !.err = "AttributeError"]
        ELSE IF connected # "set" THEN [same EXCEPT !.polled = socket]
        ELSE IF ~recvOk                                                  \* 808
             THEN [same EXCEPT !.polled = socket, !.err = "OSError"]
        ELSE IF dump THEN [same EXCEPT !.polled = socket, !.read = TRUE] \* 809-810
        ELSE [same EXCEPT !.polled = socket, !.read = TRUE, !.returned = "data"]

RecvAudio ==
    \E pollErr \in BOOLEAN, ready \in BOOLEAN, recvOk \in BOOLEAN, dump \in BOOLEAN :
        LET r == RecvResult(pollErr, ready, recvOk, dump) IN
        /\ last' = Ret("recv_audio", r.err)
        /\ hist' = [hist EXCEPT !.polled = r.polled, !.returned = r.returned]
        /\ UNCHANGED <<clientVars, envVars>>

\* ------------------------------------------- the voice connection state (env)

\* The connection state completes its connection flow: a session (mode, SSRC,
\* secret key) is negotiated and the signaling websocket is open.
ConnConnected ==
    \E mode \in SupportedModes :
        /\ ~conn.connected
        /\ conn' = [conn EXCEPT !.connected = TRUE, !.mode = mode]
        /\ ws' = [ws EXCEPT !.state = "open", !.close_code = 0]
        /\ last' = Ret("conn_connected", "none")
        /\ UNCHANGED <<clientVars, players, receivers, sockets, state, waiter, wire, hist>>

\* The connection state loses or ends its session.
ConnDisconnected ==
    /\ conn.connected
    /\ conn' = [conn EXCEPT !.connected = FALSE, !.mode = "MISSING"]
    /\ last' = Ret("conn_disconnected", "none")
    /\ UNCHANGED <<clientVars, ws, players, receivers, sockets, state, waiter, wire, hist>>

\* ------------------------------------------------------------ specification

ServerUpdates ==
    [token : Tokens, endpoint : Endpoints, guild_id : {1}]

StateUpdates == [session_id : {"sid"}]

\* __init__ (223-242) and a new VoiceConnectionState: everything but the
\* three packet counters
InitOther ==
    /\ player = 0
    /\ receiver = 0
    /\ socket = 0
    /\ server_id = 0
    /\ encoder = 0
    /\ handshaking = "UNSET"
    /\ voice_state_complete = "UNSET"
    /\ voice_server_complete = "UNSET"
    /\ connected = "UNSET"
    /\ connections = -1
    /\ conn = [connected |-> FALSE, mode |-> "MISSING", session_id |-> "None",
               token |-> "None", endpoint |-> None]
    /\ ws = [state |-> "MISSING", close_code |-> 0, fresh_key |-> FALSE]
    /\ players = << >>
    /\ receivers = << >>
    /\ sockets = 0
    /\ state = [pool |-> FALSE, registered |-> TRUE]
    /\ waiter = "idle"
    /\ wire = << >>
    /\ last = Ret("__init__", "none")
    /\ hist = [n |-> 0, prepared |-> FALSE, state |-> FALSE, server |-> FALSE,
               first |-> "none", full |-> FALSE, fulls |-> 0,
               calls |-> 0, since |-> 0, gap |-> 0, dropped |-> FALSE,
               raised |-> FALSE,
               wrote |-> 0, polled |-> 0, returned |-> "None", data |-> << >>,
               listen |-> [sink |-> "none", decode |-> FALSE, opus |-> FALSE,
                           connected |-> FALSE, standby |-> FALSE, pool |-> FALSE],
               force |-> FALSE, disconnects |-> 0,
               pre |-> [sequence |-> sequence, timestamp |-> timestamp,
                        lite_nonce |-> lite_nonce]]

\* __init__ (223-242) and a new VoiceConnectionState
Init ==
    /\ sequence = ZERO
    /\ timestamp = ZERO
    /\ lite_nonce = ZERO
    /\ InitOther

Next ==
    \/ \E data \in StateUpdates : OnVoiceStateUpdate(data)
    \/ \E data \in ServerUpdates : OnVoiceServerUpdate(data)
    \/ PrepareHandshake
    \/ FinishHandshake
    \/ ConnectWebsocket
    \/ Play
    \/ Stop
    \/ Pause
    \/ Resume
    \/ SourceExhausted
    \/ SendAudioPacket
    \/ RecvAudio
    \/ SetSource
    \/ Listen
    \/ InitAudioProcessingPool
    \/ StopListening
    \/ PauseListening
    \/ ResumeListening
    \/ WaitForListenReady
    \/ Disconnect
    \/ ConnConnected
    \/ ConnDisconnected

\* The whole client: every operation, in any order.
Spec == Init /\ [][Next]_vars

\* The state is the product of three parts that the operations keep apart:
\* the handshake and transport attributes, the players, and the packet
\* counters.  An operation of one part leaves the variables of the others
\* unchanged, so a claim about one part is checked under the specification
\* of that part's operations (and of the connection state, which all read).

\* handshake, signaling websocket, socket and receiver
NextHandshake ==
    \/ \E data \in StateUpdates : OnVoiceStateUpdate(data)
    \/ \E data \in ServerUpdates : OnVoiceServerUpdate(data)
    \/ PrepareHandshake
    \/ FinishHandshake
    \/ ConnectWebsocket
    \/ RecvAudio
    \/ ConnConnected
    \/ ConnDisconnected

SpecHandshake == Init /\ [][NextHandshake]_vars

\* players
NextPlayer ==
    \/ Play
    \/ Stop
    \/ Pause
    \/ Resume
    \/ SourceExhausted
    \/ ConnConnected
    \/ ConnDisconnected

SpecPlayer == Init /\ [][NextPlayer]_vars

\* packets: play is what creates the encoder
NextAudio ==
    \/ SendAudioPacket
    \/ Play
    \/ ConnConnected
    \/ ConnDisconnected

SpecAudio == Init /\ [][NextAudio]_vars

\* the two ends of the UDP transport
NextTransport ==
    \/ SendAudioPacket
    \/ RecvAudio
    \/ \E data \in ServerUpdates : OnVoiceServerUpdate(data)
    \/ ConnConnected
    \/ ConnDisconnected

SpecTransport == Init /\ [][NextTransport]_vars

\* listening
NextListen ==
    \/ Listen
    \/ InitAudioProcessingPool
    \/ StopListening
    \/ PauseListening
    \/ ResumeListening
    \/ WaitForListenReady
    \/ \E data \in ServerUpdates : OnVoiceServerUpdate(data)
    \/ ConnConnected
    \/ ConnDisconnected

SpecListen == Init /\ [][NextListen]_vars

\* connecting and disconnecting, with a player
NextLifecycle ==
    \/ Disconnect
    \/ Play
    \/ Pause
    \/ ConnectWebsocket
    \/ \E data \in ServerUpdates : OnVoiceServerUpdate(data)
    \/ ConnConnected
    \/ ConnDisconnected

SpecLifecycle == Init /\ [][NextLifecycle]_vars

\* one player paused, resumed and given other sources while packets are sent
NextPlayback ==
    \/ Play
    \/ Pause
    \/ Resume
    \/ SetSource
    \/ (hist.calls < MaxPlaybackCalls /\ SendAudioPacket)
    \/ ConnConnected

SpecPlayback == Init /\ [][NextPlayback]_vars

\* players started and stopped while packets are sent
NextReplay ==
    \/ Play
    \/ Stop
    \/ SendAudioPacket
    \/ ConnConnected

SpecReplay == Init /\ [][NextReplay]_vars

\* Counters that have run close to their limits.  Every combination of counter
\* values is reachable from __init__: the timestamp advances with every call
\* that builds a packet, the sequence also with every call whose encoding
\* fails, the lite nonce only with packets built in lite mode.
NearLimit ==
    /\ sequence = <<0, 65533>>
    /\ timestamp = <<65535, 64320>>         \* 4294966080 = 4473923 * 960
    /\ lite_nonce = <<65535, 65534>>

InitNearLimit ==
    /\ NearLimit
    /\ InitOther

SpecAudioWrap == InitNearLimit /\ [][NextAudio]_vars

\* Counter values a client reaches after some calls of send_audio_packet
\* (the sequence advances in every call, the timestamp by 960 in every call
\* that builds a packet).
SequenceStarts == { <<0, 0>>, <<0, 255>> }
TimestampStarts == { <<0, 0>>, <<0, 960>>, <<1, 704>> }    \* 66240 = 69 * 960

InitPacket ==
    /\ sequence \in SequenceStarts
    /\ timestamp \in TimestampStarts
    /\ lite_nonce \in { <<0, 0>>, <<0, 65535>> }
    /\ InitOther

\* building and sending packets, without an encoder (encode = False succeeds)
NextPacket ==
    \/ SendAudioPacket
    \/ ConnConnected
    \/ ConnDisconnected

SpecPacket == InitPacket /\ [][NextPacket]_vars


\* ----------------------------------------------------------------- claims

\* The handshake is complete: both readiness signals are set.
HandshakeComplete ==
    voice_server_complete = "set" /\ voice_state_complete = "set"

\* C1: once prepare_handshake has been called, the handshake is complete
\* (both readiness signals set) if and only if the session-info event and a
\* server-info event carrying token and endpoint have both been delivered
\* since, whichever came first.
C1_HandshakeIffBothDelivered ==
    hist.prepared => (HandshakeComplete <=> (hist.state /\ hist.server))

\* C2: a server-info update carrying token and endpoint that arrives while the
\* client is not handshaking (and a signaling websocket exists) closes the
\* websocket with code 4000 and does not set the server-info signal.
C2_StaleUpdateClosesWebsocket ==
    ( /\ last.op = "on_voice_server_update"
      /\ hist.full
      /\ handshaking = "False"
      /\ ws.state # "MISSING" )
    => ( /\ ws.state = "closed"
         /\ ws.close_code = CLOSE_CODE
         /\ voice_server_complete # "set" )

\* C3: a server-info update with the endpoint or the token missing returns
\* without error and stalls: no socket, no receiver, the websocket not closed,
\* the server-info signal not set.
C3_PartialUpdateStalls ==
    (last.op = "on_voice_server_update" /\ ~hist.full)
    => ( /\ last.err = "none"
         /\ socket = 0
         /\ receiver = 0
         /\ ws.state # "closed"
         /\ voice_server_complete # "set" )

\* C4: the connected signal is set only if the signaling gateway has reported
\* a secret key; connect_websocket first clears the signal and sets it once
\* the key is reported, so after a call the signal is clear or set, and set
\* exactly when the key has been reported.
C4_ConnectedOnlyWithSecretKey ==
    /\ connected = "set" => ws.fresh_key
    /\ last.op = "connect_websocket"
       => ( /\ connected \in {"clear", "set"}
            /\ connected = "set" <=> ws.fresh_key )

LivePlayers == {p \in 1..Len(players) : PlayerAlive(players[p].state)}

\* C5: at most one audio player is alive (started and not terminated).
C5_AtMostOneLivePlayer == Cardinality(LivePlayers) <= 1

LiveReceivers == {r \in 1..Len(receivers) : receivers[r].alive}

C7_OneSharedSocket ==
    (last.op = "recv_audio" /\ hist.wrote # 0) => hist.polled = hist.wrote

\* the 16-bit sequence field of a packet's header (bytes 2-3, big-endian)
SeqOf(p) == p[3] * 256 + p[4]

\* C8: the packet that follows another carries the sequence number that many
\* calls later (modulo 65536); sent by the very next call it carries a greater
\* one, or 0 after 65535; consecutive packets never carry the same one.
C8_SequenceStrictlyIncreasing ==
    /\ \A i \in 1..(Len(wire) - 1) : SeqOf(wire[i + 1]) # SeqOf(wire[i])
    /\ Len(wire) >= 2 =>
        LET a == SeqOf(wire[Len(wire) - 1])
            b == SeqOf(wire[Len(wire)])
        IN  /\ b = (a + 1 + hist.gap) % 65536
            /\ hist.gap = 0 => (b > a \/ (a = 65535 /\ b = 0))

\* C8 witness: two packets sent by successive calls, across the wraparound.
C8_Witness ==
    /\ Len(wire) >= 2
    /\ hist.gap = 0
    /\ SeqOf(wire[Len(wire) - 1]) = 65535
    /\ SeqOf(wire[Len(wire)]) = 0

\* a <= b on limb pairs
WLeq(a, b) == a[1] < b[1] \/ (a[1] = b[1] /\ a[2] <= b[2])

\* post is pre + value when that is at most limit, and 0 otherwise
\* (value is at most the low limb of limit)
IsCheckedSum(pre, value, limit, post) ==
    IF WLeq(pre, <<limit[1], limit[2] - value>>)
    THEN /\ post[2] \in 0..65535
         /\ \/ post[1] = pre[1] /\ post[2] - pre[2] = value
            \/ post[1] = pre[1] + 1 /\ post[2] + 65536 - pre[2] = value
    ELSE post = <<0, 0>>

InRange(w, limit) == w[1] \in 0..65535 /\ w[2] \in 0..65535 /\ WLeq(w, limit)

\* C9: every counter stays within 0..limit, and a call of send_audio_packet
\* leaves each counter it advances at v + value when that is at most the limit
\* and at 0 otherwise: the sequence (1, 65535) in every call, the timestamp
\* (960, 4294967295) in every call that builds a packet, the lite nonce
\* (1, 4294967295) in every call that builds a packet in lite mode.
C9_CheckedAdd ==
    /\ InRange(sequence, <<0, 65535>>)
    /\ InRange(timestamp, <<65535, 65535>>)
    /\ InRange(lite_nonce, <<65535, 65535>>)
    /\ last.op = "send_audio_packet" =>
        /\ IsCheckedSum(hist.pre.sequence, 1, <<0, 65535>>, sequence)
        /\ last.err = "none" =>
             IsCheckedSum(hist.pre.timestamp, 960, <<65535, 65535>>, timestamp)
        /\ (last.err = "none" /\ conn.mode = LITE) =>
             IsCheckedSum(hist.pre.lite_nonce, 1, <<65535, 65535>>, lite_nonce)

\* C9 witness: a call took the timestamp from 4294967040 to 0 (adding 960
\* would pass the limit) while the sequence went from 65534 to 65535.
C9_Witness ==
    /\ last.op = "send_audio_packet"
    /\ last.err = "none"
    /\ hist.pre.timestamp = <<65535, 65280>>
    /\ timestamp = <<0, 0>>
    /\ hist.pre.sequence = <<0, 65534>>
    /\ sequence = <<0, 65535>>

\* the last four bytes of a packet, read as a big-endian 32-bit number
TrailerValue(p) ==
    << p[Len(p) - 3] * 256 + p[Len(p) - 2], p[Len(p) - 1] * 256 + p[Len(p)] >>

\* the nonce a packet's payload was encrypted with
NonceOf(p) == p[13].nonce

SendStep == hist'.calls = hist.calls + 1

\* C10: the lite nonce changes only in a call of send_audio_packet that builds
\* a packet in lite mode; such a call advances it by exactly 1 (to 0 after
\* 4294967295), encrypts with the counter's value before the call (as the
\* first four nonce bytes, the other twenty zero) and appends that value.
C10_Step ==
    /\ lite_nonce' # lite_nonce
       => (SendStep /\ conn.mode = LITE /\ last'.err = "none")
    /\ (SendStep /\ conn.mode = LITE /\ last'.err = "none")
       => /\ IsCheckedSum(lite_nonce, 1, <<65535, 65535>>, lite_nonce')
          /\ wire' # wire
             => /\ TrailerValue(wire'[Len(wire')]) = lite_nonce
                /\ SubSeq(NonceOf(wire'[Len(wire')]), 1, 4)
                     = SubSeq(wire'[Len(wire')], Len(wire'[Len(wire')]) - 3,
                              Len(wire'[Len(wire')]))
                /\ SubSeq(NonceOf(wire'[Len(wire')]), 5, 24) = Zeros(20)

C10_LiteNonce == [][C10_Step]_vars

\* C10 witness: a lite-mode packet was encrypted with the counter at
\* 4294967295, carries it as its last four bytes, and the counter is now 0.
C10_Witness ==
    /\ last.op = "send_audio_packet"
    /\ conn.mode = LITE
    /\ hist.since = 0
    /\ Len(wire) >= 1
    /\ hist.pre.lite_nonce = <<65535, 65535>>
    /\ lite_nonce = <<0, 0>>
    /\ TrailerValue(wire[Len(wire)]) = <<65535, 65535>>

\* the packet the last call of send_audio_packet put on the wire
SentNow == last.op = "send_audio_packet" /\ hist.since = 0 /\ Len(wire) >= 1
LastPacket == wire[Len(wire)]

\* a four-byte big-endian field of a packet, as a limb pair
U32At(p, i) == << p[i] * 256 + p[i + 1], p[i + 2] * 256 + p[i + 3] >>

\* C11: in every mode a packet begins with 12 header bytes: 0x80, 0x78, the
\* sequence of the call (big-endian, 2 bytes), the timestamp of the call
\* (4 bytes) and the SSRC 12345 (4 bytes); for sequence 1 and timestamp 960
\* the header is 80 78 00 01 00 00 03 C0 00 00 30 39.
C11_HeaderBytes ==
    SentNow =>
        /\ Len(LastPacket) >= 12
        /\ \A i \in 1..12 : LastPacket[i] \in 0..255
        /\ LastPacket[1] = 128
        /\ LastPacket[2] = 120
        /\ << 0, LastPacket[3] * 256 + LastPacket[4] >> = sequence
        /\ U32At(LastPacket, 5) = hist.pre.timestamp
        /\ U32At(LastPacket, 9) = <<0, 12345>>
        /\ (sequence = <<0, 1>> /\ hist.pre.timestamp = <<0, 960>>)
           => SubSeq(LastPacket, 1, 12)
                = <<128, 120, 0, 1, 0, 0, 3, 192, 0, 0, 48, 57>>

\* C11 witness: the packet with sequence 1 and timestamp 960, sent in suffix
\* mode, begins with the twelve bytes of the example.
C11_Witness ==
    /\ SentNow
    /\ conn.mode = SUFFIX
    /\ sequence = <<0, 1>>
    /\ hist.pre.timestamp = <<0, 960>>
    /\ SubSeq(LastPacket, 1, 12) = <<128, 120, 0, 1, 0, 0, 3, 192, 0, 0, 48, 57>>

\* C12: in each mode, decrypting a packet with the key it was encrypted with
\* returns the payload: the nonce rebuilt from the packet (the header padded
\* with zeros; the last 24 bytes; the last 4 bytes padded with zeros) is the
\* nonce that was used, and the ciphertext is what lies between the 12-byte
\* header and the trailer of 0, 24 or 4 bytes.
C12_DecryptRoundTrip ==
    SentNow =>
        /\ Decrypt(conn.mode, SECRET_KEY, LastPacket) = hist.data
        /\ ReconstructNonce(conn.mode, LastPacket) = NonceOf(LastPacket)
        /\ Len(LastPacket) = 12 + 1 + TrailerLen(conn.mode)

\* C12 witness: a packet sent in plain mode carrying an encoded frame opens
\* to that frame.
C12_Witness ==
    /\ SentNow
    /\ conn.mode = PLAIN
    /\ hist.data = OpusEncode(<<222, 173>>)
    /\ Decrypt(PLAIN, SECRET_KEY, LastPacket) = OpusEncode(<<222, 173>>)

\* C13: what play returns when the client is not connected, or is playing,
\* or the source is no AudioSource: an error, with the player reference, the
\* players and the encoder as they were; the not-connected error comes first,
\* then already-playing, then the source's TypeError.
C13_Contract ==
    \A source \in Sources, bitrate \in Bitrates :
        LET r == PlayResult(source, bitrate) IN
        /\ (~IsConnected \/ IsPlaying \/ source = "not_a_source")
           => /\ r.err # "none"
              /\ r.player = player
              /\ r.players = players
              /\ r.encoder = encoder
        /\ ~IsConnected => r.err = "ClientException: not connected"
        /\ (IsConnected /\ IsPlaying) => r.err = "ClientException: already playing"
        /\ (IsConnected /\ ~IsPlaying /\ source = "not_a_source") => r.err = "TypeError"

\* a call of play that fails changes nothing but the record of the last call
C13_Step ==
    (last'.op = "play" /\ last'.err # "none")
    => UNCHANGED <<clientVars, envVars, hist>>

C13_PlayFailsInOrder == [](C13_Contract) /\ [][C13_Step]_vars

\* C13 witness: play with something that is no AudioSource has failed on a
\* connected client whose player is paused; the reference still names it.
C13_Witness ==
    /\ last = Ret("play", "TypeError")
    /\ IsConnected
    /\ IsPaused

\* C14: play with a non-Opus source and a bitrate outside 16..512 (1024) on a
\* connected client that is not playing fails with a configuration error
\* (ValueError); no player is created or started, no packet is sent, and
\* sequence, timestamp and the encoder stay as they were.
C14_Contract ==
    \A bitrate \in Bitrates :
        LET r == PlayResult("pcm", bitrate) IN
        (IsConnected /\ ~IsPlaying /\ (bitrate < 16 \/ bitrate > 512))
        => /\ r.err = "ValueError"
           /\ r.player = player
           /\ r.players = players
           /\ r.encoder = encoder

C14_Step ==
    (last'.op = "play" /\ last'.err = "ValueError")
    => UNCHANGED <<sequence, timestamp, lite_nonce, encoder, player, players, wire>>

C14_InvalidBitrateFails == [](C14_Contract) /\ [][C14_Step]_vars

\* C14 witness: the call has failed on a client that holds an encoder from an
\* earlier play.
C14_Witness ==
    /\ last = Ret("play", "ValueError")
    /\ encoder # 0
    /\ IsConnected

\* C15: a call of listen on a connected client whose receiver is on standby,
\* with an AudioSink, fails with the pool error and leaves the receiver as it
\* was while the audio processing pool is not initialized, and starts
\* listening once the pool is initialized (and Opus is loaded if decoding).
C15_ListenNeedsPool ==
    (last.op = "listen" /\ hist.listen.connected /\ hist.listen.standby
        /\ hist.listen.sink = "sink")
    => /\ ~hist.listen.pool
          => (last.err = "ClientException: pool not initialized" /\ ~IsListening)
       /\ (hist.listen.pool /\ (hist.listen.decode => hist.listen.opus))
          => (last.err = "none" /\ IsListening)

\* C16: listen(sink, decode=False) on a connected client whose receiver is on
\* standby starts listening also when the pool is not initialized.
C16_NoPoolNeededWithoutDecode ==
    (last.op = "listen" /\ hist.listen.connected /\ hist.listen.standby
        /\ hist.listen.sink = "sink" /\ ~hist.listen.decode /\ ~hist.listen.pool)
    => (last.err = "none" /\ IsListening)

\* C18: disconnect(force=True), the first time and again, completes without
\* error and leaves no player, the session torn down, the client out of the
\* registry, the receiver stopped and the connected signal clear.
C18_DisconnectIdempotent ==
    (last.op = "disconnect" /\ hist.force)
    => /\ last.err = "none"
       /\ player = 0
       /\ ~conn.connected
       /\ ~state.registered
       /\ receiver # 0 => ~receivers[receiver].alive
       /\ connected = "clear"

\* C19: a call of pause, resume or the source setter leaves sequence,
\* timestamp and lite nonce as they were, creates no player, keeps the
\* reference, and does not end the player it names.
C19_Step ==
    (last'.op \in {"pause", "resume", "source.setter"})
    => /\ UNCHANGED <<sequence, timestamp, lite_nonce, player, encoder, wire>>
       /\ Len(players') = Len(players)
       /\ \A p \in 1..Len(players) :
            PlayerAlive(players'[p].state) = PlayerAlive(players[p].state)

\* ... so each packet continues the series of the packet before it: the
\* sequence that many calls later, the timestamp 960 later for every call in
\* between that built a packet.
C19_Continues ==
    Len(wire) >= 2 =>
        LET a == wire[Len(wire) - 1]
            b == wire[Len(wire)]
        IN  /\ SeqOf(b) = SeqOf(a) + 1 + hist.gap
            /\ U32At(a, 5)[1] = 0 /\ U32At(b, 5)[1] = 0
            /\ U32At(b, 5)[2] >= U32At(a, 5)[2] + 960
            /\ U32At(b, 5)[2] <= U32At(a, 5)[2] + 960 * (1 + hist.gap)

C19_PauseResumeSwapKeepCounters == [](C19_Continues) /\ [][C19_Step]_vars

\* C19 witness: the one player, started on a PCM source, has sent a packet,
\* has been paused and has then been given an Opus source; the counters are
\* where the packet left them and the reference still names the player.
C19_Witness ==
    /\ last = Ret("source.setter", "none")
    /\ Len(players) = 1
    /\ player = 1
    /\ encoder = 1
    /\ players[1] = [state |-> "paused", source |-> "opus"]
    /\ Len(wire) = 1
    /\ sequence = <<0, 1>>
    /\ timestamp = <<0, 960>>

\* C20: a successful play that follows an earlier player which has sent
\* packets and has been stopped resets sequence and timestamp, so the new
\* player's first packet does not continue from the counters the earlier
\* player left.
C20_FreshPlayResetsCounters ==
    ( /\ last = Ret("play", "none")
      /\ Len(players) >= 2
      /\ players[1].state = "ended"
      /\ Len(wire) >= 1 )
    => (sequence = <<0, 0>> /\ timestamp = <<0, 0>>)

\* C21 as a contract of the handler: whenever a call would send its packet,
\* the same call with the transport refusing the packet (OSError) returns
\* normally, puts nothing on the wire, counts the packet as dropped and
\* leaves the three counters exactly where the successful call leaves them.
C21_Contract ==
    \A data \in Payloads, encode \in BOOLEAN, random \in RandomNonces :
        LET sent == SendResult(data, encode, TRUE, TRUE, random)
            drop == SendResult(data, encode, TRUE, FALSE, random)
        IN  (sent.err = "none" /\ sent.wire # wire)
            => /\ drop.err = "none"
               /\ drop.dropped
               /\ drop.wire = wire
               /\ drop.sequence = sent.sequence
               /\ drop.timestamp = sent.timestamp
               /\ drop.lite_nonce = sent.lite_nonce

\* ... and of the calls made: a call that drops its packet advances the
\* sequence by 1 and the timestamp by 960, and the packet sent after a
\* dropped one carries the sequence after the dropped one's and the
\* timestamp the dropped call left.
C21_Step ==
    /\ (SendStep /\ hist'.dropped)
       => /\ last'.err = "none"
          /\ wire' = wire
          /\ IsCheckedSum(sequence, 1, <<0, 65535>>, sequence')
          /\ IsCheckedSum(timestamp, 960, <<65535, 65535>>, timestamp')
    /\ (SendStep /\ hist.dropped /\ wire' # wire)
       => /\ IsCheckedSum(hist.pre.sequence, 1, <<0, 65535>>, sequence)
          /\ IsCheckedSum(sequence, 1, <<0, 65535>>, sequence')
          /\ << 0, SeqOf(wire'[Len(wire')]) >> = sequence'
          /\ IsCheckedSum(hist.pre.timestamp, 960, <<65535, 65535>>, timestamp)
          /\ U32At(wire'[Len(wire')], 5) = timestamp

\* C21: a transport error (OSError) while sending one packet is not fatal:
\* send_audio_packet returns normally, the packet is dropped, the timestamp
\* advances by one frame and the sequence keeps its advance, so the next
\* packet has the next sequence number and the next timestamp, as after a
\* packet that was sent.
C21_SendErrorDropsPacket == [](C21_Contract) /\ [][C21_Step]_vars

\* C21 witness: a packet was sent, the next call dropped its packet, and the
\* counters stand two packets after their start.
C21_Witness ==
    /\ last = Ret("send_audio_packet", "none")
    /\ hist.dropped
    /\ hist.calls = 2
    /\ Len(wire) = 1
    /\ U32At(wire[1], 5) = <<0, 0>>
    /\ sequence = << 0, SeqOf(wire[1]) + 1 >>
    /\ timestamp = <<0, 1920>>

\* C22: recv_audio never raises: when the poll reports an error condition or
\* the read fails it returns nothing; it returns data only after reading from
\* the open socket with the connected signal set.
C22_RecvNeverFatal ==
    last.op = "recv_audio"
    => /\ last.err = "none"
       /\ hist.returned = "data"
          => (socket # 0 /\ hist.polled = socket /\ connected = "set")

\* C23: after on_voice_server_update with a token and an endpoint, the token
\* is stored, the stored endpoint is the host name of the received one (port
\* suffix and 'wss://' prefix stripped, never empty), a socket is open and a
\* receiver has been created and started.
C23_ServerUpdateStoresEndpoint ==
    (last.op = "on_voice_server_update" /\ hist.full)
    => /\ last.err = "none"
       /\ conn.token = "tok"
       /\ conn.endpoint = <<"host">>
       /\ socket # 0
       /\ receiver # 0
       /\ receivers[receiver].alive

\* C24: disconnect completes without error from every state, also before any
\* server-info update arrived and without a player; afterwards the client is
\* out of the voice-client registry and is not connected.
C24_DisconnectFromAnyState ==
    last.op = "disconnect"
    => /\ last.err = "none"
       /\ ~state.registered
       /\ ~IsConnected

\* C25 as a contract of the handler: with an encoder, a call whose encoding
\* fails raises the encoder's error, puts nothing on the wire, leaves the
\* timestamp and the lite nonce unchanged and the sequence advanced by 1.
C25_Contract ==
    \A data \in Payloads, sendOk \in BOOLEAN, random \in RandomNonces :
        LET r == SendResult(data, TRUE, FALSE, sendOk, random)
        IN  encoder # 0
            => /\ r.err = "OpusError"
               /\ r.wire = wire
               /\ ~r.dropped
               /\ r.timestamp = timestamp
               /\ r.lite_nonce = lite_nonce
               /\ IsCheckedSum(sequence, 1, <<0, 65535>>, r.sequence)

\* ... and of the calls made: the failed call changes the sequence only, and
\* the packet sent by the call after it carries the sequence two after, and
\* the timestamp of, the state the failed call started in: one sequence
\* number is skipped and the timestamp has no gap.
C25_Step ==
    /\ (SendStep /\ last'.err = "OpusError")
       => /\ wire' = wire
          /\ timestamp' = timestamp
          /\ lite_nonce' = lite_nonce
          /\ IsCheckedSum(sequence, 1, <<0, 65535>>, sequence')
    /\ (SendStep /\ last = Ret("send_audio_packet", "OpusError") /\ wire' # wire)
       => /\ IsCheckedSum(hist.pre.sequence, 1, <<0, 65535>>, sequence)
          /\ IsCheckedSum(sequence, 1, <<0, 65535>>, sequence')
          /\ << 0, SeqOf(wire'[Len(wire')]) >> = sequence'
          /\ timestamp = hist.pre.timestamp
          /\ U32At(wire'[Len(wire')], 5) = hist.pre.timestamp

\* C25: if encoding fails inside send_audio_packet the error propagates, no
\* packet is built or sent, timestamp and lite nonce are unchanged and only
\* the sequence has advanced by one, so the next packet sent skips one
\* sequence number while its timestamp continues without a gap.
C25_EncodeFailureKeepsSequenceAdvance == [](C25_Contract) /\ [][C25_Step]_vars

\* C25 witness: the first call sent packet 1 at timestamp 0, and the second
\* call failed in the encoder: sequence 2, timestamp still 960.
C25_Witness ==
    /\ last = Ret("send_audio_packet", "OpusError")
    /\ encoder # 0
    /\ Len(wire) = 1
    /\ SeqOf(wire[1]) = 1
    /\ hist.pre.sequence = <<0, 1>>
    /\ sequence = <<0, 2>>
    /\ hist.pre.timestamp = <<0, 960>>
    /\ timestamp = <<0, 960>>

\* C26: the header of a packet carries the sequence as the call left it and
\* the timestamp as the call found it (the sequence is advanced before the
\* packet is built, the timestamp after it is sent); on a fresh client, as
\* long as no call has raised (no encode error, and every call made while
\* connected, as the method requires), the n-th call builds the packet with
\* sequence n and timestamp (n-1)*960, the first one with sequence 1 and
\* timestamp 0.
C26_SequenceBeforeTimestampAfter ==
    SentNow =>
        /\ << 0, SeqOf(LastPacket) >> = sequence
        /\ IsCheckedSum(hist.pre.sequence, 1, <<0, 65535>>, sequence)
        /\ U32At(LastPacket, 5) = hist.pre.timestamp
        /\ IsCheckedSum(hist.pre.timestamp, 960, <<65535, 65535>>, timestamp)
        /\ ~hist.raised
           => /\ SeqOf(LastPacket) = hist.calls
              /\ U32At(LastPacket, 5) = << 0, (hist.calls - 1) * 960 >>

\* C26 witness: three calls on a fresh client, none raised; the first and the
\* third packet are on the wire with sequence 1, timestamp 0 and sequence 3,
\* timestamp 1920.
C26_Witness ==
    /\ SentNow
    /\ ~hist.raised
    /\ hist.calls = 3
    /\ SeqOf(wire[1]) = 1
    /\ U32At(wire[1], 5) = <<0, 0>>
    /\ SeqOf(LastPacket) = 3
    /\ U32At(LastPacket, 5) = <<0, 1920>>

====
